---- MODULE Spec2Model ----
(***************************************************************************)
(* FaceAuth-Pro (src/app.py): a Flask service that enrolls a captured      *)
(* photo as the reference face of an email, or verifies a captured photo   *)
(* against the enrolled reference.                                         *)
(*                                                                         *)
(* The state is the students directory (a flat map from file name to       *)
(* file), the session cookie of every client, the request context of the   *)
(* request every client has in flight (with its response, once it is       *)
(* done), and the clock.  Requests of different clients are handled *)
(* concurrently (Flask's development server is threaded): every file       *)
(* system call and every call of the face library is one step.             *)
(*                                                                         *)
(* strip, lower, replace and startswith are computed character by          *)
(* character, as Python computes them.                                     *)
(***************************************************************************)
EXTENDS Integers, Sequences, FiniteSets, TLC

VARIABLES files, session, req, now, nreq

vars == <<files, session, req, now, nreq>>

(***************************************************************************)
(* Bounds of the model.                                                    *)
(***************************************************************************)
\* submit requests in one run
MaxRequests == 2
\* the clock stops at this day
MaxNow == 31

\* the clients (browsers); each has its own session cookie
Clients == {1, 2}
\* how many days may pass between two requests
TickDays == {30, 31}

(***************************************************************************)
(* Program constants.                                                      *)
(***************************************************************************)
MAX_FILE_AGE_DAYS == 30
SecondsPerDay == 86400

(***************************************************************************)
(* Python's string functions, on strings: Len, SubSeq and \o only.         *)
(***************************************************************************)
Whitespace == {" "}

CharAt(s, i) == SubSeq(s, i, i)

RECURSIVE LStrip(_)
LStrip(s) ==
    IF Len(s) > 0 /\ CharAt(s, 1) \in Whitespace
    THEN LStrip(SubSeq(s, 2, Len(s)))
    ELSE s

RECURSIVE RStrip(_)
RStrip(s) ==
    IF Len(s) > 0 /\ CharAt(s, Len(s)) \in Whitespace
    THEN RStrip(SubSeq(s, 1, Len(s) - 1))
    ELSE s

\* str.strip()
Strip(s) == RStrip(LStrip(s))

LowerChar(ch) ==
    CASE ch = "A" -> "a"
      [] ch = "B" -> "b"
      [] ch = "C" -> "c"
      [] OTHER -> ch

\* str.lower()
RECURSIVE Lower(_)
Lower(s) ==
    IF Len(s) = 0 THEN ""
    ELSE LowerChar(CharAt(s, 1)) \o Lower(SubSeq(s, 2, Len(s)))

\* str.replace(old, new) for a one-character old
RECURSIVE Replace(_, _, _)
Replace(s, old, new) ==
    IF Len(s) = 0 THEN ""
    ELSE (IF CharAt(s, 1) = old THEN new ELSE CharAt(s, 1))
         \o Replace(SubSeq(s, 2, Len(s)), old, new)

\* str.startswith(prefix)
StartsWith(s, prefix) ==
    /\ Len(s) >= Len(prefix)
    /\ SubSeq(s, 1, Len(prefix)) = prefix

\* the email as submit and check_email read it from the form
NormalizeEmail(raw) == Lower(Strip(raw))

sanitize_email(email) ==
    Replace(Replace(Lower(Strip(email)), "@", "_at_"), ".", "_")

\* file names inside STUDENTS_DIR; the directory is flat, so the name is the path
RegisteredPath(fname) == fname \o ".jpg"

TempPath(fname, hex) == "temp_" \o fname \o "_" \o hex \o ".jpg"

(***************************************************************************)
(* The inputs of the model.                                                *)
(***************************************************************************)
\* what the email field of the form may hold: nothing, blanks, an address, the
\* same address as typed by a careless user, an address with the same
\* sanitized name, and an address whose sanitized name is that of a temp file
RawEmails ==
    { "", " ", "a.b@c", " A.b@c", "a_b@c", "temp_a_b_at_c_00000000" }

Emails == {NormalizeEmail(raw) : raw \in RawEmails} \ {""}

\* what the mode field of the form may hold
Modes == {"login", "register", "other"}

\* what os.urandom(4).hex() may return
Rands == { "00000000", "00000001" }

\* a decoded picture: whose face it shows and how many faces the detector finds
Photos ==
    { [who |-> 1, faces |-> 1],
      [who |-> 2, faces |-> 1],
      [who |-> 0, faces |-> 0],
      [who |-> 1, faces |-> 2] }

NoPhoto == [who |-> 0, faces |-> 0]

\* what the image_data field may hold: nothing, a string with no comma, a data
\* URL whose payload is not valid base64, or a data URL of a picture
ImageData ==
    { [kind |-> "missing", photo |-> NoPhoto],
      [kind |-> "nocomma", photo |-> NoPhoto],
      [kind |-> "badbase64", photo |-> NoPhoto] }
    \cup { [kind |-> "dataurl", photo |-> p] : p \in Photos }

\* the bytes of a file: nothing (0 bytes) or a picture
EmptyBytes == [bytes |-> "empty", photo |-> NoPhoto]
PictureBytes(p) == [bytes |-> "jpeg", photo |-> p]

(***************************************************************************)
(* The students directory.  A file has its bytes and its modification time *)
(* (in days); mode and email say which request wrote the bytes,            *)
(* and enrolled says that os.replace has put a reference photo under this  *)
(* name (history, not read by the program).                                *)
(***************************************************************************)
Exists(fs, path) == path \in DOMAIN fs

\* open(path, "wb") and f.write: the bytes, the writer and the time change;
\* the name keeps being an enrolled name if it was one
WriteFile(fs, path, bytes, mode, email, t) ==
    [p \in DOMAIN fs \cup {path} |->
        IF p = path
        THEN [bytes |-> bytes, mode |-> mode, email |-> email,
              enrolled |-> (path \in DOMAIN fs /\ fs[path].enrolled),
              mtime |-> t]
        ELSE fs[p]]

\* os.remove
RemoveFile(fs, path) == [p \in DOMAIN fs \ {path} |-> fs[p]]

\* os.replace(src, dst): dst gets the file of src, its mtime included
ReplaceFile(fs, src, dst) ==
    [p \in (DOMAIN fs \ {src}) \cup {dst} |->
        IF p = dst THEN [fs[src] EXCEPT !.enrolled = TRUE] ELSE fs[p]]

\* the enrolled reference photos, by name
Enrolled(fs) == {p \in DOMAIN fs : fs[p].enrolled}

EnrolledFiles(fs) == [p \in Enrolled(fs) |-> fs[p]]

(***************************************************************************)
(* The face library.                                                       *)
(***************************************************************************)
\* DeepFace.extract_faces(enforce_detection=True) raises when the file cannot
\* be read as a picture, when it shows no face, or when the library fails
ExtractFacesRaises(fs, path, libfail) ==
    \/ libfail
    \/ ~Exists(fs, path)
    \/ fs[path].bytes.bytes # "jpeg"
    \/ fs[path].bytes.photo.faces = 0

single_face_present_raises_true(fs, path, libfail) ==
    IF ExtractFacesRaises(fs, path, libfail)
    THEN TRUE
    ELSE fs[path].bytes.photo.faces = 1

single_face_present(fs, path, libfail) ==
    IF ExtractFacesRaises(fs, path, libfail)
    THEN FALSE
    ELSE fs[path].bytes.photo.faces = 1

\* DeepFace.verify raises like extract_faces, for either picture
VerifyRaises(fs, img1, img2, libfail) ==
    \/ ExtractFacesRaises(fs, img1, libfail)
    \/ ExtractFacesRaises(fs, img2, libfail)

\* the result dictionary of DeepFace.verify: verified iff the same person
Verify(fs, img1, img2) ==
    [verified |-> fs[img1].bytes.photo.who = fs[img2].bytes.photo.who]

VerifiedAlways(result) == TRUE

\* bool(result.get("verified"))
Verified(result) == result.verified

(***************************************************************************)
(* cleanup_old_files: what is left of the directory.                       *)
(***************************************************************************)
IsOld(fs, p, t) ==
    fs[p].mtime * SecondsPerDay < t * SecondsPerDay - MAX_FILE_AGE_DAYS * SecondsPerDay

Removable(fs, t) == {p \in DOMAIN fs : StartsWith(p, "temp_") /\ IsOld(fs, p, t)}

cleanup_old_files(fs, t) == [p \in DOMAIN fs \ Removable(fs, t) |-> fs[p]]

(***************************************************************************)
(* Sessions and request contexts.  req[c] is the submit request client c   *)
(* has in flight: its position (pc), the locals of the handler and the     *)
(* response it is going to send (view, flash).  sess0, detect_raised,      *)
(* raised, overwrote, touched and against record what the request did      *)
(* (history, not read by the program).                                     *)
(***************************************************************************)
EmptySession == [logged_in |-> FALSE, email |-> "", permanent |-> FALSE]

LoggedIn(email) == [logged_in |-> TRUE, email |-> email, permanent |-> TRUE]

IdleReq ==
    [pc |-> "idle", mode |-> "none", email |-> "",
     image_data |-> [kind |-> "missing", photo |-> NoPhoto],
     registered_path |-> "", temp_path |-> "",
     face_ok |-> FALSE, ref_exists |-> FALSE, verified |-> FALSE,
     detect_raised |-> FALSE, raised |-> FALSE,
     overwrote |-> FALSE, touched |-> FALSE,
     against |-> "", against_enrolled |-> FALSE,
     sess0 |-> EmptySession, view |-> "none", flash |-> "none"]

Init ==
    /\ files = <<>>
    /\ session = [c \in Clients |-> EmptySession]
    /\ req = [c \in Clients |-> IdleReq]
    /\ now = 0
    /\ nreq = 0

Quiet == \A c \in Clients : req[c].pc = "idle"

(***************************************************************************)
(* POST /submit, one step per call that reads or writes shared state.      *)
(***************************************************************************)
\* line 89
MissingField(mode, email, image_data) ==
    \/ email = ""
    \/ mode \notin {"login", "register"}
    \/ image_data.kind = "missing"

\* the forms a client may post
Forms == Modes \X RawEmails \X ImageData

MissingForms == {f \in Forms : MissingField(f[1], NormalizeEmail(f[2]), f[3])}

CompleteForms == Forms \ MissingForms

\* lines 85-91: a form with a missing field is answered at once with the home
\* page; nothing but the flash message changes
SubmitMissing(c, mode, raw, image_data) ==
    /\ req[c].pc = "idle"
    /\ nreq < MaxRequests
    /\ MissingField(mode, NormalizeEmail(raw), image_data)
    /\ nreq' = nreq + 1
    /\ UNCHANGED <<files, session, req, now>>

\* lines 85-95: the form is read and validated, the paths are computed
Submit(c, mode, raw, image_data, hex) ==
    LET email == NormalizeEmail(raw)
        fname == sanitize_email(email)
    IN  /\ req[c].pc = "idle"
        /\ nreq < MaxRequests
        /\ ~MissingField(mode, email, image_data)
        /\ req' = [req EXCEPT ![c] =
                      [IdleReq EXCEPT !.pc = "save", !.mode = mode, !.email = email,
                                      !.image_data = image_data,
                                      !.registered_path = RegisteredPath(fname),
                                      !.temp_path = TempPath(fname, hex),
                                      !.sess0 = session[c]]]
        /\ nreq' = nreq + 1
        /\ UNCHANGED <<files, session, now>>

\* lines 97-101 with save_base64_image (lines 33-40): a string with no comma
\* raises before the file is opened; a payload that is not base64 raises in
\* b64decode, after open(path, "wb") has created (or emptied) the file; both
\* are answered with the home page, outside the try ... finally of line 103
save_base64_image(c) ==
    LET r == req[c]
        kind == r.image_data.kind
    IN  /\ r.pc = "save"
        /\ files' =
              CASE kind = "nocomma" -> files
                [] kind = "badbase64" ->
                     WriteFile(files, r.temp_path, EmptyBytes, r.mode, r.email, now)
                [] OTHER ->
                     WriteFile(files, r.temp_path, PictureBytes(r.image_data.photo),
                               r.mode, r.email, now)
        /\ req' = IF kind = "dataurl"
                  THEN [req EXCEPT ![c].pc = "face",
                                   ![c].touched = r.temp_path \in Enrolled(files)]
                  ELSE [req EXCEPT ![c] = IdleReq]
        /\ UNCHANGED <<session, now, nreq>>

\* lines 104-107
FaceCheck(c, libfail) ==
    LET r == req[c]
        ok == single_face_present(files, r.temp_path, libfail)
    IN  /\ r.pc = "face"
        /\ req' = [req EXCEPT ![c].face_ok = ok,
                              ![c].detect_raised =
                                  ExtractFacesRaises(files, r.temp_path, libfail),
                              ![c].pc = IF ok THEN "exists" ELSE "finally",
                              ![c].view = IF ok THEN "none" ELSE "home",
                              ![c].flash = IF ok THEN "none" ELSE "noface"]
        /\ UNCHANGED <<files, session, now, nreq>>

\* lines 109-112 (register) and 122-124 (login): os.path.exists(registered_path)
ExistsCheck(c) ==
    LET r == req[c]
        found == Exists(files, r.registered_path)
        stop == (r.mode = "register") = found
    IN  /\ r.pc = "exists"
        /\ req' = [req EXCEPT ![c].ref_exists = found,
                        ![c].pc = IF stop THEN "finally"
                                  ELSE IF r.mode = "register" THEN "replace"
                                  ELSE "verify",
                        ![c].view = IF stop THEN "home" ELSE "none",
                        ![c].flash = IF ~stop THEN "none"
                                     ELSE IF found THEN "already"
                                     ELSE "notregistered"]
        /\ UNCHANGED <<files, session, now, nreq>>

\* lines 114-119: os.replace raises when the temp file is gone, and the
\* handler of line 147 catches it
Enroll(c) ==
    LET r == req[c]
    IN  /\ r.pc = "replace"
        /\ IF Exists(files, r.temp_path)
           THEN /\ files' = ReplaceFile(files, r.temp_path, r.registered_path)
                /\ session' = [session EXCEPT ![c] = LoggedIn(r.email)]
                /\ req' = [req EXCEPT ![c].pc = "finally",
                                ![c].overwrote = r.registered_path \in Enrolled(files),
                                ![c].touched =
                                    (r.touched \/ r.registered_path \in Enrolled(files)),
                                ![c].view = "dashboard",
                                ![c].flash = "registered"]
           ELSE /\ req' = [req EXCEPT ![c].pc = "finally", ![c].raised = TRUE,
                                ![c].view = "home", ![c].flash = "autherror"]
                /\ UNCHANGED <<files, session>>
        /\ UNCHANGED <<now, nreq>>

\* lines 127-150: DeepFace.verify and the decision
VerifyStep(c, libfail) ==
    LET r == req[c]
    IN  /\ r.pc = "verify"
        /\ IF VerifyRaises(files, r.temp_path, r.registered_path, libfail)
           THEN /\ req' = [req EXCEPT ![c].pc = "finally", ![c].raised = TRUE,
                                ![c].view = "home", ![c].flash = "autherror"]
                /\ UNCHANGED session
           ELSE LET result == Verify(files, r.temp_path, r.registered_path)
                    granted == Verified(result)
                IN  /\ req' = [req EXCEPT ![c].pc = "finally",
                                ![c].verified = result.verified,
                                ![c].against = files[r.registered_path].email,
                                ![c].against_enrolled = files[r.registered_path].enrolled,
                                ![c].view = IF granted THEN "dashboard" ELSE "home",
                                ![c].flash = IF granted THEN "welcome"
                                             ELSE "notrecognized"]
                    /\ session' = IF granted
                                  THEN [session EXCEPT ![c] = LoggedIn(r.email)]
                                  ELSE session
        /\ UNCHANGED <<files, now, nreq>>

\* lines 151-157; the response is sent and the request is over
Finally(c) ==
    LET r == req[c]
    IN  /\ r.pc = "finally"
        /\ files' = IF Exists(files, r.temp_path)
                    THEN RemoveFile(files, r.temp_path)
                    ELSE files
        /\ req' = [req EXCEPT ![c] = IdleReq]
        /\ UNCHANGED <<session, now, nreq>>

(***************************************************************************)
(* The other routes; each is one step.                                     *)
(***************************************************************************)
\* GET /
home(c) ==
    /\ req[c].pc = "idle"
    /\ files' = cleanup_old_files(files, now)
    /\ UNCHANGED <<session, req, now, nreq>>

\* GET /logout
logout(c) ==
    /\ req[c].pc = "idle"
    /\ session' = [session EXCEPT ![c] = EmptySession]
    /\ UNCHANGED <<files, req, now, nreq>>

\* GET /dashboard changes nothing: the page it answers with
dashboard(sess) ==
    IF ~sess.logged_in
    THEN [view |-> "home", flash |-> "needlogin", email |-> ""]
    ELSE [view |-> "dashboard.html", flash |-> "none", email |-> sess.email]

\* POST /check_email changes nothing: the JSON it answers with
check_email(fs, raw) ==
    LET email == NormalizeEmail(raw)
        fname == sanitize_email(email)
    IN  IF email = ""
        THEN [status |-> 400, registered |-> FALSE]
        ELSE [status |-> 200, registered |-> Exists(fs, RegisteredPath(fname))]

\* time passes between requests (a request takes less than a day)
Tick(d) ==
    /\ Quiet
    /\ now + d <= MaxNow
    /\ now' = now + d
    /\ UNCHANGED <<files, session, req, nreq>>

Next ==
    \/ \E c \in Clients, f \in CompleteForms, hex \in Rands :
            Submit(c, f[1], f[2], f[3], hex)
    \/ \E c \in Clients, f \in MissingForms :
            SubmitMissing(c, f[1], f[2], f[3])
    \/ \E c \in Clients : save_base64_image(c)
    \/ \E c \in Clients, libfail \in BOOLEAN : FaceCheck(c, libfail)
    \/ \E c \in Clients : ExistsCheck(c)
    \/ \E c \in Clients : Enroll(c)
    \/ \E c \in Clients, libfail \in BOOLEAN : VerifyStep(c, libfail)
    \/ \E c \in Clients : Finally(c)
    \/ \E c \in Clients : home(c)
    \/ \E c \in Clients : logout(c)
    \/ \E d \in TickDays : Tick(d)

Spec == Init /\ [][Next]_vars

(***************************************************************************)
(* The runs in which the random part of a temp name is neither drawn twice *)
(* nor guessed: the temp path of a new request is no file of the directory *)
(* and no path of a request in flight, and its reference path is no temp   *)
(* path of a request in flight.  os.urandom(4) makes all but about one in  *)
(* 2^32 requests such.                                                     *)
(***************************************************************************)
InFlight == {c \in Clients : req[c].pc # "idle"}

TempPathsInFlight == {req[c].temp_path : c \in InFlight}

PathsInUse ==
    DOMAIN files \cup TempPathsInFlight \cup {req[c].registered_path : c \in InFlight}

SubmitFresh(c, mode, raw, image_data, hex) ==
    /\ Submit(c, mode, raw, image_data, hex)
    /\ TempPath(sanitize_email(NormalizeEmail(raw)), hex) \notin PathsInUse
    /\ RegisteredPath(sanitize_email(NormalizeEmail(raw))) \notin TempPathsInFlight

NextFresh ==
    \/ \E c \in Clients, f \in CompleteForms, hex \in Rands :
            SubmitFresh(c, f[1], f[2], f[3], hex)
    \/ \E c \in Clients, f \in MissingForms :
            SubmitMissing(c, f[1], f[2], f[3])
    \/ \E c \in Clients : save_base64_image(c)
    \/ \E c \in Clients, libfail \in BOOLEAN : FaceCheck(c, libfail)
    \/ \E c \in Clients : ExistsCheck(c)
    \/ \E c \in Clients : Enroll(c)
    \/ \E c \in Clients, libfail \in BOOLEAN : VerifyStep(c, libfail)
    \/ \E c \in Clients : Finally(c)
    \/ \E c \in Clients : home(c)
    \/ \E c \in Clients : logout(c)
    \/ \E d \in TickDays : Tick(d)

SpecFresh == Init /\ [][NextFresh]_vars

(***************************************************************************)
(* Vocabulary of the properties.                                           *)
(***************************************************************************)
\* the step taken is the last step of client c's submit request
Finishes(c) == req[c].pc # "idle" /\ req'[c].pc = "idle"

\* ... and the response of that request is the redirect to the home page
FinishesHome(c) == Finishes(c) /\ (req[c].pc = "save" \/ req[c].view = "home")

\* the request of c has decided its response and is about to clean up
Decided(c) == req[c].pc = "finally"

\* the three conditions of a successful login, as the handler saw them
LoginChecksPassed(r) == r.face_ok /\ r.ref_exists /\ r.verified

(***************************************************************************)
(* C1.  A login request logs its caller in (session logged_in = True,      *)
(* email = the submitted email, redirect to the dashboard) only if the     *)
(* single-face check passed, the reference file of the email existed and   *)
(* DeepFace.verify returned verified = true; in every other case the       *)
(* session stays as it was and the redirect is to the home page.           *)
(***************************************************************************)
C1_Decision ==
    \A c \in Clients :
        (Decided(c) /\ req[c].mode = "login") =>
            IF LoginChecksPassed(req[c])
            THEN session[c] = LoggedIn(req[c].email) /\ req[c].view = "dashboard"
            ELSE session[c] = req[c].sess0 /\ req[c].view = "home"

\* no step of a login request but the decision after DeepFace.verify writes
\* the session
C1_OnlyVerifyWrites ==
    \A c \in Clients :
        (req[c].mode = "login" /\ req[c].pc # "verify") => session'[c] = session[c]

C2_Step ==
    \A c \in Clients :
        (/\ Finishes(c)
         /\ req[c].mode = "register"
         /\ req[c].face_ok
         /\ ~req[c].ref_exists) =>
            /\ Exists(files', req[c].registered_path)
            /\ files'[req[c].registered_path].bytes =
                  PictureBytes(req[c].image_data.photo)
            /\ session'[c] = LoggedIn(req[c].email)
            /\ req[c].view = "dashboard"

C2_RegisterEnrolls == [][C2_Step]_vars

(***************************************************************************)
(* C3.  When a submit request has finished, whatever its outcome, the temp *)
(* file it created is no longer in the students directory.                 *)
(***************************************************************************)
C3_Step ==
    \A c \in Clients : Finishes(c) => ~Exists(files', req[c].temp_path)

C3_TempFileGone == [][C3_Step]_vars

(***************************************************************************)
(* C4.  Exceptions of the face library are caught: when face detection     *)
(* raises, the photo counts as not having exactly one face; when           *)
(* DeepFace.verify or os.replace raises, the request ends with an error    *)
(* message and the redirect to the home page; in both cases the request    *)
(* has a response and its caller's session is as it was.                   *)
(***************************************************************************)
C4_ExceptionsCaught ==
    \A c \in Clients :
        /\ req[c].detect_raised =>
              /\ ~req[c].face_ok
              /\ Decided(c)
              /\ req[c].view = "home" /\ req[c].flash = "noface"
              /\ session[c] = req[c].sess0
        /\ req[c].raised =>
              /\ Decided(c)
              /\ req[c].view = "home" /\ req[c].flash = "autherror"
              /\ session[c] = req[c].sess0

C4_Witness ==
    \E c, d \in Clients :
        /\ Decided(c) /\ req[c].raised /\ req[c].mode = "login"
        /\ Decided(d) /\ req[d].detect_raised

(***************************************************************************)
(* C5.  The reference store is keyed per email: the enrolled reference     *)
(* photo that makes check_email say "registered" for an email was enrolled *)
(* under that email, and a login is verified only against the photo        *)
(* enrolled under the email of the login.                                  *)
(***************************************************************************)
ReferencePath(email) == RegisteredPath(sanitize_email(email))

C5_KeyedPerEmail ==
    /\ \A e \in Emails :
          (check_email(files, e).registered /\ files[ReferencePath(e)].enrolled) =>
              files[ReferencePath(e)].email = e
    /\ \A c \in Clients :
          (Decided(c) /\ req[c].mode = "login" /\ req[c].against # "") =>
              /\ req[c].against_enrolled
              /\ req[c].against = req[c].email

(***************************************************************************)
(* C6.  A submit request that ends with the redirect to the home page has  *)
(* created, replaced or removed no enrolled reference photo, and leaves    *)
(* its caller's session as it was.                                         *)
(***************************************************************************)
C6_Step ==
    \A c \in Clients :
        FinishesHome(c) =>
            /\ ~req[c].touched
            /\ EnrolledFiles(files') = EnrolledFiles(files)
            /\ session'[c] = req[c].sess0

C6_HomeChangesNothing == [][C6_Step]_vars

(***************************************************************************)
(* C7.  Registration never overwrites an enrolled reference, also under    *)
(* concurrency: os.replace of a register request never lands on a          *)
(* reference photo that is already enrolled, so of the concurrent register *)
(* requests for one email at most one succeeds.                            *)
(***************************************************************************)
C7_NoOverwrite == \A c \in Clients : ~req[c].overwrote

(***************************************************************************)
(* C8.  Only single-face photos are enrolled: every enrolled reference     *)
(* photo holds a picture with exactly one face that a register request     *)
(* submitted; never the capture of a login request, never something else.  *)
(***************************************************************************)
C8_OnlySingleFaceEnrolled ==
    \A p \in Enrolled(files) :
        /\ files[p].mode = "register"
        /\ files[p].bytes.bytes = "jpeg"
        /\ files[p].bytes.photo.faces = 1

(***************************************************************************)
(* C9.  cleanup_old_files, run by the home page, removes only temp files   *)
(* older than MAX_FILE_AGE_DAYS: never an enrolled reference photo, never  *)
(* a file younger than that, never the temp file that a request in flight  *)
(* has written.                                                            *)
(***************************************************************************)
C9_Step ==
    (\E c \in Clients : home(c)) =>
        \A p \in DOMAIN files \ DOMAIN files' :
            /\ ~files[p].enrolled
            /\ StartsWith(p, "temp_")
            /\ (now - files[p].mtime) > MAX_FILE_AGE_DAYS
            /\ \A c \in Clients :
                  req[c].pc \notin {"idle", "save"} => req[c].temp_path # p

C9_CleanupOnlyOldTemp == [][C9_Step]_vars

====
